---- MODULE Spec2Model ----
(***************************************************************************)
(* Model of lsapi.py: the recursive listing of the names exposed by a       *)
(* package.  The traversal (walk_names / _handle_name) is modelled with an  *)
(* explicit call stack; strings are sequences of one-character strings so   *)
(* that str.startswith / str.endswith are computed, not assumed.            *)
(* Colours, tree glyph styles and signature rendering only decorate text    *)
(* that is already decided and are left out of the emitted line records.    *)
(***************************************************************************)
EXTENDS Integers, Sequences, FiniteSets, TLC

VARIABLES args, edges, pc, stack, known_namespaces, out, calls, q

vars == <<args, edges, pc, stack, known_namespaces, out, calls, q>>

(* ------------------------------ bounds --------------------------------- *)

\* largest value of -D/--max-depth that is tried (0..MaxD, and "not given")
MaxD == 3

\* recursion cap of the model: deeper calls of walk_names are not taken
MaxStack == 10

\* lengths of the names drawn for the in_package check
MaxRootLen == 2

MaxOwnerLen == 3

(* ------------------------------ strings -------------------------------- *)

startswith(s, p) == Len(p) <= Len(s) /\ SubSeq(s, 1, Len(p)) = p

endswith(s, p) == Len(p) <= Len(s) /\ SubSeq(s, Len(s) - Len(p) + 1, Len(s)) = p

Dunder == <<"_", "_">>

is_magic(name) == startswith(name, Dunder) /\ endswith(name, Dunder)

is_private(name) == startswith(name, <<"_">>) /\ ~is_magic(name)

name_filter_swapped(name) ==
    IF ~args.all
    THEN /\ ~(~args.private /\ is_magic(name))
         /\ ~(~args.magic /\ is_private(name))
    ELSE TRUE

name_filter(name) ==
    IF ~args.all
    THEN /\ ~(~args.private /\ is_private(name))
         /\ ~(~args.magic /\ is_magic(name))
    ELSE TRUE

(* --------------------------- the object graph -------------------------- *)

Pkg == <<"p", "k", "g">>
PkgSub == <<"p", "k", "g", ".", "s", "u", "b">>
PkgUt == <<"p", "k", "g", ".", "u", "t">>
Pkgx == <<"p", "k", "g", "x">>
Os == <<"o", "s">>
Builtins == <<"b", "i">>

Mod(nm, pk, path) ==
    [kind |-> "module", tname |-> "module", name |-> nm, hasPackage |-> TRUE,
     package |-> pk, hasModule |-> FALSE, module |-> <<>>, hasPath |-> path]

Cls(nm, md) ==
    [kind |-> "class", tname |-> "type", name |-> nm, hasPackage |-> FALSE,
     package |-> <<>>, hasModule |-> TRUE, module |-> md, hasPath |-> FALSE]

Val(tn, nm, md) ==
    [kind |-> "value", tname |-> tn, name |-> nm, hasPackage |-> FALSE,
     package |-> <<>>, hasModule |-> md # <<>>, module |-> md, hasPath |-> FALSE]

\* the loaded objects: attributes read by the program (__name__,
\* __package__, __module__, __path__, and the type)
Objects ==
    [ pkg   |-> Mod(Pkg, Pkg, TRUE),
      sub   |-> Mod(PkgSub, PkgSub, TRUE),
      util  |-> Mod(PkgUt, Pkg, FALSE),
      pkgx  |-> Mod(Pkgx, Pkgx, TRUE),
      os    |-> Mod(Os, <<>>, FALSE),
      Foo   |-> Cls(<<"F", "o", "o">>, PkgUt),
      Inner |-> Cls(<<"I", "n">>, PkgUt),
      type  |-> Cls(<<"t", "y">>, Builtins),
      f     |-> Val("function", <<"f">>, Pkg),
      g     |-> Val("function", <<"g">>, PkgSub),
      v     |-> Val("int", <<>>, <<>>) ]

Ids == DOMAIN Objects

package == "pkg"

ismodule(value) == Objects[value].kind = "module"

isclass(value) == Objects[value].kind = "class"

is_package(value) == ismodule(value) /\ Objects[value].hasPath

Namespaces == {o \in Ids : ismodule(o) \/ isclass(o)}

\* edges of the graph that a world may or may not have
OptionalEdges == {"rootback", "cycle", "reexport"}

E(nm, val, canon, opt) == [name |-> nm, value |-> val, canon |-> canon, opt |-> opt]

\* dir() of every namespace, in the (sorted) order inspect.getmembers
\* returns it; canon is the answer of is_canon(namespace, value)
AllMembers ==
    [ pkg   |-> << E(<<"F">>, "Foo", FALSE, "reexport"),
                   E(<<"_", "_", "d", "_", "_">>, "v", TRUE, ""),
                   E(<<"_", "h">>, "f", TRUE, ""),
                   E(<<"f">>, "f", TRUE, ""),
                   E(<<"o", "s">>, "os", FALSE, ""),
                   E(<<"p", "x">>, "pkgx", FALSE, ""),
                   E(<<"s", "u", "b">>, "sub", TRUE, ""),
                   E(<<"u", "t">>, "util", TRUE, "") >>,
      sub   |-> << E(<<"_", "u">>, "util", FALSE, ""),
                   E(<<"g">>, "g", TRUE, ""),
                   E(<<"p", "k", "g">>, "pkg", FALSE, "rootback"),
                   E(<<"u", "t">>, "util", FALSE, "") >>,
      util  |-> << E(<<"F", "o", "o">>, "Foo", TRUE, ""),
                   E(<<"_", "_">>, "v", TRUE, ""),
                   E(<<"f">>, "f", FALSE, ""),
                   E(<<"s", "u", "b">>, "sub", FALSE, "cycle") >>,
      pkgx  |-> << E(<<"o", "s">>, "os", FALSE, ""),
                   E(<<"y">>, "v", TRUE, "") >>,
      os    |-> << E(<<"p", "x">>, "pkgx", FALSE, ""),
                   E(<<"s", "e", "p">>, "v", TRUE, "") >>,
      Foo   |-> << E(<<"I", "n">>, "Inner", TRUE, ""),
                   E(<<"_", "_", "c", "_", "_">>, "type", TRUE, ""),
                   E(<<"m">>, "g", TRUE, "") >>,
      Inner |-> << E(<<"_", "_", "c", "_", "_">>, "type", TRUE, ""),
                   E(<<"_">>, "v", TRUE, "") >>,
      type  |-> << E(<<"_", "_", "c", "_", "_">>, "type", TRUE, "") >>,
      f     |-> << >>,
      g     |-> << >>,
      v     |-> << >> ]

HasEdge(m) == m.opt = "" \/ m.opt \in edges

\* predicate_factory(namespace)(value), value being the member m
predicate_factory(namespace, m) == IF args.canonical THEN m.canon ELSE TRUE

\* inspect.getmembers(namespace, predicate): the members, each with the
\* position it has in the plain enumeration of the namespace
getmembers(namespace) ==
    LET present == SelectSeq(AllMembers[namespace], HasEdge)
        numbered == [i \in 1..Len(present) |->
                        [name |-> present[i].name, value |-> present[i].value,
                         canon |-> present[i].canon, pos |-> i]]
    IN SelectSeq(numbered, LAMBDA m : predicate_factory(namespace, m))

(* ------------------------------ in_package ----------------------------- *)

in_package(pkgobj, other) ==
    IF other.hasPackage THEN startswith(other.package, pkgobj.name)
    ELSE IF other.hasModule THEN startswith(other.module, pkgobj.name)
    ELSE FALSE

(* ------------------------------ fmt_name ------------------------------- *)

fmt_type_of(value) == Objects[value].tname

\* the kind tag of fmt_name
type_tag(value) == IF is_package(value) THEN "package" ELSE fmt_type_of(value)

(* ------------------------------ walk_names ----------------------------- *)

Top == stack[Len(stack)]

all_names_modules_first(namespace) ==
    LET ms == SelectSeq(getmembers(namespace), LAMBDA m : name_filter(m.name))
        modules == SelectSeq(ms, LAMBDA m : ismodule(m.value))
        classes == SelectSeq(ms, LAMBDA m : ~ismodule(m.value) /\ isclass(m.value))
        names == SelectSeq(ms, LAMBDA m : ~ismodule(m.value) /\ ~isclass(m.value))
    IN modules \o classes \o names

\* names + classes + modules of walk_names, each entry (name, value) with
\* its position in the enumeration
all_names(namespace) ==
    LET ms == SelectSeq(getmembers(namespace), LAMBDA m : name_filter(m.name))
        modules == SelectSeq(ms, LAMBDA m : ismodule(m.value))
        classes == SelectSeq(ms, LAMBDA m : ~ismodule(m.value) /\ isclass(m.value))
        names == SelectSeq(ms, LAMBDA m : ~ismodule(m.value) /\ ~isclass(m.value))
    IN names \o classes \o modules

\* the activation record of one call walk_names(namespace, depth, tab)
Frame(namespace, depth, tab, call) ==
    [ns |-> namespace, depth |-> depth, tab |-> tab,
     all_names |-> all_names(namespace), i |-> 1, call |-> call]

HasCur == pc = "walk" /\ stack # <<>> /\ Top.i <= Len(Top.all_names)

Cur == Top.all_names[Top.i]

IsLast == Top.i = Len(Top.all_names)

\* tab and subtab handed to _handle_name by the loop of walk_names
CurTab == Top.tab \o << IF IsLast THEN "stop" ELSE "fork" >>

CurSubtab == Top.tab \o << IF IsLast THEN "open" ELSE "line" >>

Advance == [stack EXCEPT ![Len(stack)].i = @ + 1]

(* ----------------------------- _handle_name ---------------------------- *)

Line(note, ntype, npath) ==
    [kind |-> "sym", call |-> Top.call, idx |-> Top.i, pos |-> Cur.pos,
     depth |-> Top.depth, tab |-> CurTab, name |-> Cur.name, value |-> Cur.value,
     type |-> type_tag(Cur.value), note |-> note, ntype |-> ntype, npath |-> npath]

TruncLine ==
    [kind |-> "trunc", call |-> Top.call, idx |-> Top.i, pos |-> Cur.pos,
     depth |-> Top.depth + 1, tab |-> CurSubtab \o <<"stop">>, name |-> <<>>,
     value |-> Cur.value, type |-> "", note |-> "[...]", ntype |-> "", npath |-> <<>>]

RootLine ==
    [kind |-> "root", call |-> 0, idx |-> 0, pos |-> 0, depth |-> 0, tab |-> <<>>,
     name |-> Objects[package].name, value |-> package, type |-> type_tag(package),
     note |-> "", ntype |-> "", npath |-> <<>>]

is_namespace(value) == ismodule(value) \/ isclass(value)

is_external_modules_only(value) ==
    ismodule(value) /\ ~(args.external \/ in_package(Objects[package], Objects[value]))

is_external(value) == ~(args.external \/ in_package(Objects[package], Objects[value]))

is_known_never(value) == FALSE

is_known(value) == value \in DOMAIN known_namespaces

see_path_own_name(value) == Objects[value].name

see_path(value) == known_namespaces[value]

at_limit_strict(depth) == args.depth_given /\ depth > args.max_depth

\* args.max_depth is not None and depth >= args.max_depth
at_limit(depth) == args.depth_given /\ depth >= args.max_depth

recorded_path(source_ns, name) == Objects[source_ns].name \o <<".">> \o name

\* print(fmt_name(args.package, package)); walk_names(package, depth=1)
Start ==
    /\ pc = "start"
    /\ out' = <<RootLine>>
    /\ stack' = <<Frame(package, 1, <<>>, 1)>>
    /\ calls' = <<[ns |-> package, depth |-> 1, from |-> 0, idx |-> 0, name |-> <<>>]>>
    /\ pc' = "walk"
    /\ UNCHANGED <<args, edges, known_namespaces, q>>

\* _handle_name, value neither module nor class
HandleTerminal ==
    /\ HasCur
    /\ ~is_namespace(Cur.value)
    /\ out' = Append(out, Line("", "", <<>>))
    /\ stack' = Advance
    /\ UNCHANGED <<args, edges, pc, known_namespaces, calls, q>>

\* _handle_name, first branch: [external <type> <name>]
HandleExternal ==
    /\ HasCur
    /\ is_namespace(Cur.value)
    /\ is_external(Cur.value)
    /\ out' = Append(out, Line("external", fmt_type_of(Cur.value), Objects[Cur.value].name))
    /\ stack' = Advance
    /\ UNCHANGED <<args, edges, pc, known_namespaces, calls, q>>

\* _handle_name, second branch: [see <path>]
HandleKnown ==
    /\ HasCur
    /\ is_namespace(Cur.value)
    /\ ~is_external(Cur.value)
    /\ is_known(Cur.value)
    /\ out' = Append(out, Line("see", "", see_path(Cur.value)))
    /\ stack' = Advance
    /\ UNCHANGED <<args, edges, pc, known_namespaces, calls, q>>

\* _handle_name, third branch at the depth limit: the line and [...]
HandleTruncate ==
    /\ HasCur
    /\ is_namespace(Cur.value)
    /\ ~is_external(Cur.value)
    /\ ~is_known(Cur.value)
    /\ at_limit(Top.depth)
    /\ out' = out \o <<Line("", "", <<>>), TruncLine>>
    /\ stack' = Advance
    /\ UNCHANGED <<args, edges, pc, known_namespaces, calls, q>>

\* _handle_name, third branch below the limit: record and recurse
HandleRecurse ==
    /\ HasCur
    /\ is_namespace(Cur.value)
    /\ ~is_external(Cur.value)
    /\ ~is_known(Cur.value)
    /\ ~at_limit(Top.depth)
    /\ Len(stack) < MaxStack
    /\ out' = Append(out, Line("", "", <<>>))
    /\ known_namespaces' =
          [n \in DOMAIN known_namespaces \cup {Cur.value} |->
              IF n = Cur.value THEN recorded_path(Top.ns, Cur.name)
              ELSE known_namespaces[n]]
    /\ calls' = Append(calls, [ns |-> Cur.value, depth |-> Top.depth + 1,
                               from |-> Top.call, idx |-> Top.i, name |-> Cur.name])
    /\ stack' = Append(Advance, Frame(Cur.value, Top.depth + 1, CurSubtab, Len(calls) + 1))
    /\ UNCHANGED <<args, edges, pc, q>>

\* walk_names returns: its loop is over
Return ==
    /\ pc = "walk"
    /\ stack # <<>>
    /\ Top.i > Len(Top.all_names)
    /\ stack' = SubSeq(stack, 1, Len(stack) - 1)
    /\ pc' = IF Len(stack) = 1 THEN "done" ELSE "walk"
    /\ UNCHANGED <<args, edges, known_namespaces, out, calls, q>>

(* ------------------------------- the run ------------------------------- *)

QIdle == [st |-> "off", root |-> <<>>, hasPackage |-> FALSE, package |-> <<>>,
          hasModule |-> FALSE, module |-> <<>>, result |-> FALSE]

Init ==
    /\ args \in [all : BOOLEAN, private : BOOLEAN, magic : BOOLEAN,
                 external : BOOLEAN, canonical : BOOLEAN,
                 depth_given : BOOLEAN, max_depth : 0..MaxD]
    /\ ~args.depth_given => args.max_depth = 0
    /\ edges \in SUBSET OptionalEdges
    /\ pc = "start"
    /\ stack = <<>>
    /\ known_namespaces = <<>>
    /\ out = <<>>
    /\ calls = <<>>
    /\ q = QIdle

\* all strings of at most n characters over {p, x, .}
QNames(n) == UNION {[1..k -> {"p", "x", "."}] : k \in 0..n}

\* a run that only evaluates in_package(package, other) on drawn attributes
InitInPackage ==
    /\ args = [all |-> FALSE, private |-> FALSE, magic |-> FALSE, external |-> FALSE,
               canonical |-> FALSE, depth_given |-> FALSE, max_depth |-> 0]
    /\ edges = {}
    /\ pc = "off"
    /\ stack = <<>>
    /\ known_namespaces = <<>>
    /\ out = <<>>
    /\ calls = <<>>
    /\ \E r \in QNames(MaxRootLen) \ {<<>>}, pk \in QNames(MaxOwnerLen),
          md \in {<<"x">>, <<"p">>}, hp \in BOOLEAN, hm \in BOOLEAN :
          q = [st |-> "call", root |-> r, hasPackage |-> hp,
               package |-> IF hp THEN pk ELSE <<>>, hasModule |-> hm,
               module |-> IF hm THEN (IF hp THEN md ELSE pk) ELSE <<>>, result |-> FALSE]

CallInPackage ==
    /\ q.st = "call"
    /\ q' = [q EXCEPT !.st = "ret", !.result = in_package([name |-> q.root], q)]
    /\ UNCHANGED <<args, edges, pc, stack, known_namespaces, out, calls>>

NextInPackage == CallInPackage

SpecInPackage == InitInPackage /\ [][NextInPackage]_vars

Next ==
    \/ Start
    \/ HandleTerminal
    \/ HandleExternal
    \/ HandleKnown
    \/ HandleTruncate
    \/ HandleRecurse
    \/ Return

Spec == Init /\ [][Next]_vars

\* the interpreter runs the program to its end: a step that can be taken is taken
FairSpec == Spec /\ WF_vars(Next)

TypeOK ==
    /\ pc \in {"start", "walk", "done"}
    /\ DOMAIN known_namespaces \subseteq Namespaces
    /\ Len(stack) <= MaxStack

(* ------------------------------ properties ----------------------------- *)

Lines == 1..Len(out)

SymLines == {i \in Lines : out[i].kind = "sym"}

\* the value passes the external check of _handle_name
PassesExternal(value) ==
    args.external \/ in_package(Objects[package], Objects[value])

\* _handle_name is about to handle a module or class that passes the external check
Encounter == HasCur /\ is_namespace(Cur.value) /\ PassesExternal(Cur.value)

\* the step prints exactly one line, for the current symbol, with this annotation
PrintsOne(note, npath) ==
    /\ Len(out') = Len(out) + 1
    /\ SubSeq(out', 1, Len(out)) = out
    /\ out'[Len(out')].kind = "sym"
    /\ out'[Len(out')].name = Cur.name
    /\ out'[Len(out')].value = Cur.value
    /\ out'[Len(out')].note = note
    /\ out'[Len(out')].npath = npath

\* C1: with no maximum depth configured the traversal terminates: the first
\* call of walk_names, and with it every nested one, returns
C1_Terminates == (~args.depth_given) => <>(pc = "done")

\* a finished unbounded traversal of a graph in which the root is reachable
\* from a descendant and sub and util import each other
C1_Witness ==
    /\ pc = "done"
    /\ ~args.depth_given
    /\ edges = OptionalEdges
    /\ package \in DOMAIN known_namespaces
    /\ \E i \in SymLines : out[i].value = "sub" /\ out[i].note = "see"

\* C2: walk_names is invoked at most once on every namespace, the root included
C2_WalkedAtMostOnce ==
    \A n \in Namespaces : Cardinality({c \in 1..Len(calls) : calls[c].ns = n}) <= 1

\* C3: a module or class that passes the external check and is a key of the
\* ledger is printed with [see <path stored in the ledger>], is not walked,
\* and the ledger stays as it is
C3_KnownIsReference ==
    [][ (Encounter /\ Cur.value \in DOMAIN known_namespaces) =>
          /\ PrintsOne("see", known_namespaces[Cur.value])
          /\ calls' = calls
          /\ Len(stack') = Len(stack)
          /\ known_namespaces' = known_namespaces ]_vars

\* a reference to a recorded namespace has been printed
C3_Witness ==
    \E i \in SymLines :
        /\ out[i].note = "see"
        /\ out[i].value \in DOMAIN known_namespaces
        /\ out[i].npath = known_namespaces[out[i].value]

\* C4 as stated: a namespace is recorded at its first encounter that passes
\* the external check, also when that encounter is at the depth limit
C4_RecordedAtFirstEncounter ==
    [][ (Encounter /\ Cur.value \notin DOMAIN known_namespaces) =>
          Cur.value \in DOMAIN known_namespaces' ]_vars

\* C4 amended: a namespace is recorded at its first encounter that passes the
\* external check below the depth limit; an encounter at the limit prints the
\* line and the truncation marker and records nothing; an entry is never
\* overwritten or removed, and a recorded namespace prints as a reference to
\* the recorded path
C4_RecordedAtFirstOpenEncounter ==
    [][ /\ \A n \in DOMAIN known_namespaces :
               n \in DOMAIN known_namespaces' /\ known_namespaces'[n] = known_namespaces[n]
        /\ (Encounter /\ Cur.value \notin DOMAIN known_namespaces
              /\ (~args.depth_given \/ Top.depth < args.max_depth)) =>
               DOMAIN known_namespaces' = DOMAIN known_namespaces \cup {Cur.value}
        /\ (Encounter /\ Cur.value \notin DOMAIN known_namespaces
              /\ args.depth_given /\ Top.depth >= args.max_depth) =>
               /\ known_namespaces' = known_namespaces
               /\ Len(out') = Len(out) + 2
               /\ out'[Len(out')].kind = "trunc"
        /\ (Encounter /\ Cur.value \in DOMAIN known_namespaces) =>
               PrintsOne("see", known_namespaces[Cur.value]) ]_vars

\* a namespace was truncated at the limit, recorded at a later encounter and
\* referred to after that
C4_Witness ==
    \E i, j, k \in Lines :
        /\ i < j /\ j < k
        /\ out[i].kind = "trunc"
        /\ out[j].kind = "sym" /\ out[j].value = out[i].value /\ out[j].note = ""
        /\ out[k].kind = "sym" /\ out[k].value = out[i].value /\ out[k].note = "see"
        /\ out[i].value \in DOMAIN known_namespaces

\* C5: with -D given no symbol line is deeper than D, and a namespace met at
\* the limit gets exactly one [...] child
C5_NothingBelowLimit ==
    args.depth_given =>
        /\ \A i \in SymLines : out[i].depth <= args.max_depth
        /\ \A i \in SymLines :
              (is_namespace(out[i].value) /\ out[i].note = ""
                  /\ out[i].depth >= args.max_depth) =>
                 /\ i < Len(out) /\ out[i + 1].kind = "trunc"
                 /\ (i + 1 < Len(out) => out[i + 2].kind # "trunc")

\* C6: with external display off, a module or class outside the root package
\* is printed once per occurrence with [external <type> <name>], is never
\* walked and never recorded; nothing is printed from inside such a namespace
C6_ExternalNotEntered ==
    (~args.external) =>
        /\ \A i \in SymLines :
              (is_namespace(out[i].value)
                  /\ ~in_package(Objects[package], Objects[out[i].value])) =>
                 /\ out[i].note = "external"
                 /\ out[i].ntype = Objects[out[i].value].tname
                 /\ out[i].npath = Objects[out[i].value].name
        /\ \A i, j \in SymLines :
              (out[i].call = out[j].call /\ out[i].idx = out[j].idx) => i = j
        /\ \A c \in 1..Len(calls) : in_package(Objects[package], Objects[calls[c].ns])
        /\ \A n \in DOMAIN known_namespaces : in_package(Objects[package], Objects[n])
        /\ \A i \in SymLines : in_package(Objects[package], Objects[calls[out[i].call].ns])

\* an external module and an external class have both been printed
C6_Witness ==
    /\ ~args.external
    /\ \E i \in SymLines : out[i].note = "external" /\ out[i].value = "os"
    /\ \E i \in SymLines : out[i].note = "external" /\ out[i].value = "type"

Rank(value) == IF ismodule(value) THEN 3 ELSE IF isclass(value) THEN 2 ELSE 1

RECURSIVE ViaIdx(_, _)
\* the index, among the members of call a, of the member through which call c
\* was reached; 0 when c is not nested in a
ViaIdx(c, a) ==
    IF c <= 1 THEN 0
    ELSE IF calls[c].from = a THEN calls[c].idx
    ELSE ViaIdx(calls[c].from, a)

\* C7: the lines of one walked namespace come as terminal values, then
\* classes, then modules, each group in enumeration order, and the lines of a
\* child's subtree all come before the line of the next sibling
C7_GroupedDepthFirst ==
    /\ \A i, j \in SymLines :
          (i < j /\ out[i].call = out[j].call) =>
             /\ out[i].idx < out[j].idx
             /\ Rank(out[i].value) <= Rank(out[j].value)
             /\ (Rank(out[i].value) = Rank(out[j].value) => out[i].pos < out[j].pos)
    /\ \A k \in Lines : \A j \in SymLines :
          LET via == IF out[k].kind = "trunc" /\ out[k].call = out[j].call
                     THEN out[k].idx
                     ELSE ViaIdx(out[k].call, out[j].call)
          IN via # 0 => IF via < out[j].idx THEN k < j ELSE j < k

\* a value, a class and a module of one namespace were printed, the class
\* with a subtree of its own
C7_Witness ==
    \E i, j, k \in SymLines :
        /\ out[i].call = out[j].call /\ out[j].call = out[k].call
        /\ Rank(out[i].value) = 1 /\ Rank(out[j].value) = 2 /\ Rank(out[k].value) = 3
        /\ out[i].pos > out[j].pos
        /\ j + 1 < k
        /\ edges = OptionalEdges

\* C8: in_package is a dotted-path prefix test on the owning package/module name
C8_DottedPrefix ==
    q.st = "ret" =>
        LET owner == IF q.hasPackage THEN q.package ELSE q.module
        IN q.result = ( /\ q.hasPackage \/ q.hasModule
                        /\ \/ owner = q.root
                           \/ /\ Len(owner) > Len(q.root)
                              /\ SubSeq(owner, 1, Len(q.root) + 1) = q.root \o <<".">> )

StartsUnderscore(name) == Len(name) >= 1 /\ name[1] = "_"

StartsAndEndsDunder(name) ==
    /\ Len(name) >= 2
    /\ name[1] = "_" /\ name[2] = "_"
    /\ name[Len(name) - 1] = "_" /\ name[Len(name)] = "_"

\* C9: without --all, no private name is printed unless --private and no magic
\* name unless --magic; with --all every member of a walked namespace is printed
C9_NameFilter ==
    /\ (~args.all /\ ~args.private) =>
          \A i \in SymLines :
              ~(StartsUnderscore(out[i].name) /\ ~StartsAndEndsDunder(out[i].name))
    /\ (~args.all /\ ~args.magic) =>
          \A i \in SymLines : ~StartsAndEndsDunder(out[i].name)
    /\ (args.all /\ pc = "done") =>
          \A c \in 1..Len(calls) :
              LET ms == getmembers(calls[c].ns)
              IN \A m \in 1..Len(ms) :
                    \E i \in SymLines :
                        /\ out[i].call = c
                        /\ out[i].name = ms[m].name
                        /\ out[i].value = ms[m].value

\* names were dropped by the filter in a finished run, or --all printed a
\* private and a magic name
C9_Witness ==
    /\ pc = "done"
    /\ \/ /\ ~args.all /\ ~args.private /\ args.magic
          /\ \E i \in SymLines : StartsAndEndsDunder(out[i].name)
       \/ /\ args.all /\ ~args.private /\ ~args.magic
          /\ \E i \in SymLines : out[i].name = <<"_", "h">>
          /\ \E i \in SymLines : out[i].name = <<"_", "_", "d", "_", "_">>

RECURSIVE RoutePath(_)
\* the symbol names from the root down to the namespace walked by call c
RoutePath(c) ==
    IF c <= 1 THEN Objects[package].name
    ELSE RoutePath(calls[c].from) \o <<".">> \o calls[c].name

\* C10: the recorded path of a namespace is the path under which it was
\* printed, the symbol names along the route from the root
C10_PathIsRoute ==
    \A c \in 2..Len(calls) : known_namespaces[calls[c].ns] = RoutePath(c)

====
